---- MODULE Spec2Model ----
(***************************************************************************)
(* yCard: alias-resolving normalizer (zod-spec.ts), vCard 4.0 codec        *)
(* (parsers/vcard.ts) and multi-hat expansion (converters.ts).             *)
(*                                                                         *)
(* A JavaScript string is a sequence of one-character strings.  A value    *)
(* whose type is decided at run time (a field of a raw person mapping or   *)
(* of a Person) is a record [t, v] carrying its typeof tag.                *)
(***************************************************************************)
EXTENDS Integers, Sequences, FiniteSets, TLC

VARIABLES
  raw,          \* normalizer: the raw value handed to the schema's safeParse (a person, a job or a document)
  nres,         \* normalizer: the safeParse result [success, data] or [success, issues]
  npc,          \* normalizer: "input" before the call, "done" after it, then "messages" or "checked"
  dups,         \* normalizer: what checkDuplicateUIDs returned (empty before it is called)
  msgs,         \* normalizer: what getErrorMessages returned (empty before it is called)
  org,          \* expansion: the YCard document [people |-> <<Person, ...>>]
  cards,        \* expansion: the cards array of yCardToVCard
  pidx,         \* expansion: position of the forEach over org.people (1-based)
  jidx,         \* expansion: the loop variable index over person.jobs (0-based), -1 before the primary card
  recs,         \* codec: the array of VCard records handed to stringifyVCard
  lines,        \* codec: the trimmed lines parseVCard iterates over
  li,           \* codec: position of the for-of over lines (1-based)
  currentCard,  \* codec: parseVCard's currentCard
  inCard,       \* codec: parseVCard's inCard
  parsed,       \* codec: parseVCard's cards array
  text,         \* codec: the vcfString handed to parseVCard
  errors,       \* codec: the errors parseVCard has reported (it has no statement that reports one)
  vcards,       \* contraction: the cards array handed to vCardToYCard
  cpeople,      \* contraction: the people array cards.map is building
  cidx,         \* contraction: position of cards.map (1-based)
  results,      \* contraction: the YCard objects returned by the finished calls
  sval,         \* escaping: the string handed to escapeVCardValue
  escaped,      \* escaping: what escapeVCardValue returned
  restored,     \* escaping: what unescapeVCardValue returned for it
  spc           \* escaping: "input", "escaped" or "restored" ("idle" when not exercised)

nvars == <<raw, nres, npc, dups, msgs>>
evars == <<org, cards, pidx, jidx>>
wvars == <<recs, lines, li, currentCard, inCard, parsed, text, errors>>
cvars == <<vcards, cpeople, cidx, results>>
svars == <<sval, escaped, restored, spc>>
vars ==
  <<raw, nres, npc, dups, msgs, org, cards, pidx, jidx, recs, lines, li, currentCard, inCard, parsed,
    text, errors, vcards, cpeople, cidx, results, sval, escaped, restored, spc>>

(***************************************************************************)
(* JavaScript values                                                       *)
(***************************************************************************)
Str(s) == [t |-> "string", v |-> s]
Arr(a) == [t |-> "array", v |-> a]
Obj(o) == [t |-> "object", v |-> o]
Null == [t |-> "null", v |-> <<>>]
Undefined == [t |-> "undefined", v |-> <<>>]

\* ToBoolean: undefined, null and the empty string are falsy; arrays and objects are truthy.
Truthy(x) ==
  \/ x.t = "array"
  \/ x.t = "object"
  \/ (x.t = "string" /\ x.v # <<>>)

\* Property read obj.k: undefined when the object has no such key.
Get(obj, k) == IF k \in DOMAIN obj THEN obj[k] ELSE Undefined

\* a || b || ... over the keys ks of obj: the first truthy operand, else the last operand.
RECURSIVE OrChain(_, _)
OrChain(obj, ks) ==
  IF Len(ks) = 1 THEN Get(obj, ks[1])
  ELSE IF Truthy(Get(obj, ks[1])) THEN Get(obj, ks[1])
  ELSE OrChain(obj, Tail(ks))

(***************************************************************************)
(* Alias-resolving normalizer: PersonSchema                                *)
(***************************************************************************)
\* The key spelled with the two kanji for "superior" in the source is written "joushi" here.
StringKeys ==
  {"uid", "id", "name", "nombre", "displayName", "surname", "apellido", "sn", "lastName",
   "title", "puesto", "role", "mail", "org", "organization", "company",
   "org_unit", "department", "ou"}
UnionKeys == {"email", "correo"}
NullableKeys == {"manager", "jefe", "joushi", "boss"}
PhoneKeys == {"phone", "tel"}
AddressKeys == {"address", "adr"}

\* The keys of the z.object shape; any other key of the input is stripped.
ShapeKeys ==
  StringKeys \cup UnionKeys \cup NullableKeys \cup PhoneKeys \cup AddressKeys \cup {"jobs", "i18n"}

\* Whether value x passes the zod type declared for key k (k is present in the input).
FieldTypeOK(k, x) ==
  IF k \in StringKeys THEN x.t = "string"
  ELSE IF k \in UnionKeys THEN x.t \in {"string", "array"}
  ELSE IF k \in NullableKeys THEN x.t \in {"string", "null"}
  ELSE IF k \in PhoneKeys THEN x.t = "array"
  ELSE IF k \in AddressKeys THEN x.t = "object"
  ELSE IF k = "jobs" THEN x.t = "array"
  ELSE x.t = "object"

\* Mutant of UidRequired: uid declared .optional() like every other key.
UidRequired_Optional(input) == TRUE

\* uid: z.string() is the one required key; every other key is .optional().
UidRequired(input) == "uid" \in DOMAIN input

\* The z.object part of PersonSchema accepts the input.
SchemaValid(input) ==
  /\ UidRequired(input)
  /\ \A k \in DOMAIN input \cap ShapeKeys : FieldTypeOK(k, input[k])

\* Mutant of Chain: an alias placed before a later one (sn and lastName exchanged,
\* correo and mail exchanged).
Chain_Reordered ==
  [uid |-> <<"uid", "id">>,
   name |-> <<"name", "displayName", "nombre">>,
   surname |-> <<"surname", "apellido", "lastName", "sn">>,
   title |-> <<"title", "role", "puesto">>,
   email |-> <<"email", "mail", "correo">>,
   org |-> <<"org", "company", "organization">>,
   org_unit |-> <<"org_unit", "ou", "department">>,
   manager |-> <<"manager", "jefe", "boss", "joushi">>,
   phone |-> <<"phone", "tel">>,
   address |-> <<"address", "adr">>]

\* The fixed `||` chains of the transform, one per canonical field.
Chain ==
  [uid |-> <<"uid", "id">>,
   name |-> <<"name", "nombre", "displayName">>,
   surname |-> <<"surname", "apellido", "sn", "lastName">>,
   title |-> <<"title", "puesto", "role">>,
   email |-> <<"email", "correo", "mail">>,
   org |-> <<"org", "organization", "company">>,
   org_unit |-> <<"org_unit", "department", "ou">>,
   manager |-> <<"manager", "jefe", "joushi", "boss">>,
   phone |-> <<"phone", "tel">>,
   address |-> <<"address", "adr">>]

CanonicalKeys == DOMAIN Chain

\* The transform: ({...person, uid: person.uid || person.id, name: ..., ...}).
PersonTransform(person) ==
  [k \in DOMAIN person \cup CanonicalKeys |->
     IF k \in CanonicalKeys THEN OrChain(person, Chain[k]) ELSE person[k]]

\* PersonSchema.safeParse: the object schema (unknown keys stripped), then the transform.
PersonSafeParse(input) ==
  IF SchemaValid(input)
  THEN [success |-> TRUE,
        data |-> PersonTransform([k \in DOMAIN input \cap ShapeKeys |-> input[k]])]
  ELSE [success |-> FALSE, data |-> [error |-> Str(<<"Z", "o", "d", "E", "r", "r", "o", "r">>)]]

(***************************************************************************)
(* Inputs of the normalizer: a raw mapping with any of uid, id, one        *)
(* unknown key, and any of the keys of one canonical field's chain.        *)
(***************************************************************************)
Absent == [t |-> "absent", v |-> <<>>]

UidValues == {Null, Str(<<>>), Str(<<"u">>), Str(<<"v">>)}
ScalarValues == {Null, Str(<<>>), Str(<<"a">>), Str(<<"b">>)}
EmailValues == {Str(<<>>), Str(<<"a">>), Arr(<<>>), Arr(<<<<"b">>>>)}
PhoneValues == {Null, Arr(<<>>), Arr(<<Str(<<"5">>)>>)}
AddressValues == {Null, Obj([city |-> <<"c">>]), Obj([city |-> <<"d">>])}

ValuesOf(f) ==
  IF f = "email" THEN EmailValues
  ELSE IF f = "phone" THEN PhoneValues
  ELSE IF f = "address" THEN AddressValues
  ELSE ScalarValues

SeqRange(s) == {s[i] : i \in 1..Len(s)}

\* The mapping that has exactly the keys g does not send to Absent.
Present(g) == [k \in {x \in DOMAIN g : g[x] # Absent} |-> g[k]]

\* The raw mapping with uid/id taken from u and the chain keys of field f taken from c.
RawInput(f, u, c) ==
  Present([k \in {"uid", "id"} \cup SeqRange(Chain[f]) |->
             IF k \in {"uid", "id"} THEN u[k] ELSE c[k]])

\* An input with a key outside the schema's shape.
UnknownKeyInput == [nickname |-> Str(<<"a">>), uid |-> Str(<<"u">>), nombre |-> Str(<<"b">>)]

NormIdle == raw = <<>> /\ nres = <<>> /\ npc = "idle" /\ dups = <<>> /\ msgs = <<>>
ExpandIdle == org = <<>> /\ cards = <<>> /\ pidx = 0 /\ jidx = 0
WireIdle ==
  /\ recs = <<>> /\ lines = <<>> /\ li = 0 /\ currentCard = <<>> /\ inCard = FALSE
  /\ parsed = <<>> /\ text = <<>> /\ errors = <<>>
ContractIdle == vcards = <<>> /\ cpeople = <<>> /\ cidx = 0 /\ results = <<>>
EscapeIdle == sval = <<>> /\ escaped = <<>> /\ restored = <<>> /\ spc = "idle"

InitNorm ==
  /\ \/ \E f \in CanonicalKeys \ {"uid"} :
          \E u \in [{"uid", "id"} -> UidValues \cup {Absent}] :
            \E c \in [SeqRange(Chain[f]) -> ValuesOf(f) \cup {Absent}] :
              raw = RawInput(f, u, c)
     \/ raw = UnknownKeyInput
  /\ nres = <<>>
  /\ npc = "input"
  /\ dups = <<>>
  /\ msgs = <<>>
  /\ ExpandIdle
  /\ WireIdle
  /\ ContractIdle
  /\ EscapeIdle

\* safeParse returns success with the transformed Person.
NormalizeOk ==
  /\ npc = "input"
  /\ PersonSafeParse(raw).success
  /\ nres' = PersonSafeParse(raw)
  /\ npc' = "done"
  /\ UNCHANGED <<raw, dups, msgs, evars, wvars, cvars, svars>>

\* safeParse returns a failure (a ZodError).
NormalizeFail ==
  /\ npc = "input"
  /\ ~PersonSafeParse(raw).success
  /\ nres' = PersonSafeParse(raw)
  /\ npc' = "done"
  /\ UNCHANGED <<raw, dups, msgs, evars, wvars, cvars, svars>>

NextNorm == NormalizeOk \/ NormalizeFail

SpecNorm == InitNorm /\ [][NextNorm]_vars

NormDone == npc = "done"
NormOk == npc = "done" /\ nres.success

(***************************************************************************)
(* VCard records                                                           *)
(*                                                                         *)
(* A VCard is a function from the keys it has to their values.  Its string *)
(* fields hold character sequences; Undef stands for the value undefined   *)
(* in a string-typed slot.                                                 *)
(***************************************************************************)
Undef == <<"undefined">>

\* ToBoolean of a string-typed slot: undefined and '' are falsy.
StrTruthy(s) == s # Undef /\ s # <<>>

\* The string held by a JS value, undefined when it holds none.
StrOf(x) == IF x.t = "string" THEN x.v ELSE Undef

\* String(n) for a non-negative integer n.
Digit(d) == <<"0", "1", "2", "3", "4", "5", "6", "7", "8", "9">>[d + 1]
RECURSIVE ToDecimal(_)
ToDecimal(n) == IF n < 10 THEN <<Digit(n)>> ELSE ToDecimal(n \div 10) \o <<Digit(n % 10)>>

(***************************************************************************)
(* Multi-hat expansion: yCardPersonToVCard and yCardToVCard                *)
(***************************************************************************)
\* a || b for two JS values.
Or2(a, b) == IF Truthy(a) THEN a ELSE b

\* card.fn: `${name} ${surname}`, or whichever of the two is set.
FullName(person) ==
  LET name == Get(person, "name")
      surname == Get(person, "surname")
  IN  IF Truthy(name) /\ Truthy(surname) THEN [fn |-> name.v \o <<" ">> \o surname.v]
      ELSE IF Truthy(name) THEN [fn |-> name.v]
      ELSE IF Truthy(surname) THEN [fn |-> surname.v]
      ELSE <<>>

\* card.n: [surname || '', name || '', '', '', ''] when either is set.
NameComponents(person) ==
  LET name == Get(person, "name")
      surname == Get(person, "surname")
  IN  IF Truthy(surname) \/ Truthy(name)
      THEN [n |-> <<IF Truthy(surname) THEN surname.v ELSE <<>>,
                    IF Truthy(name) THEN name.v ELSE <<>>, <<>>, <<>>, <<>>>>]
      ELSE <<>>

\* card.title = person.title when the person has one.
TitleField(person) ==
  IF Truthy(Get(person, "title")) THEN [title |-> Get(person, "title").v] ELSE <<>>

\* const org = orgName || person.org; card.org = [org] plus person.org_unit when set.
OrgField(person, orgName) ==
  LET o == Or2(orgName, Get(person, "org"))
  IN  IF Truthy(o)
      THEN [org |-> <<o.v>> \o (IF Truthy(Get(person, "org_unit"))
                                THEN <<Get(person, "org_unit").v>> ELSE <<>>)]
      ELSE <<>>

\* card.email: one entry per address, the first typed 'work'.
EmailField(person) ==
  LET e == Get(person, "email")
      emails == IF e.t = "array" THEN e.v ELSE <<e.v>>
  IN  IF Truthy(e)
      THEN [email |-> [i \in 1..Len(emails) |->
                         [value |-> emails[i],
                          type |-> IF i = 1 THEN <<"w", "o", "r", "k">> ELSE Undef]]]
      ELSE <<>>

\* card.tel: a bare string phone is typed 'work', a structured one keeps its type.
TelField(person) ==
  LET ph == Get(person, "phone")
  IN  IF Truthy(ph)
      THEN [tel |-> [i \in 1..Len(ph.v) |->
                       IF ph.v[i].t = "string"
                       THEN [value |-> ph.v[i].v, type |-> <<"w", "o", "r", "k">>]
                       ELSE [value |-> ph.v[i].v.number, type |-> ph.v[i].v.type]]]
      ELSE <<>>

\* address.part || ''
AdrPart(a, k) == IF k \in DOMAIN a /\ StrTruthy(a[k]) THEN a[k] ELSE <<>>

\* card.adr: one work address with the seven positional components.
AdrField(person) ==
  LET a == Get(person, "address")
  IN  IF Truthy(a)
      THEN [adr |-> <<[value |-> <<<<>>, <<>>, AdrPart(a.v, "street"), AdrPart(a.v, "city"),
                                   AdrPart(a.v, "state"), AdrPart(a.v, "postal_code"),
                                   AdrPart(a.v, "country")>>,
                       type |-> <<"w", "o", "r", "k">>]>>]
      ELSE <<>>

\* Object with the keys of both; b's value where both have the key.
Merge(a, b) ==
  [k \in DOMAIN a \cup DOMAIN b |-> IF k \in DOMAIN b THEN b[k] ELSE a[k]]

yCardPersonToVCard(person, orgName) ==
  Merge([version |-> <<"4", ".", "0">>, uid |-> StrOf(Get(person, "uid"))],
   Merge(FullName(person),
    Merge(NameComponents(person),
     Merge(TitleField(person),
      Merge(OrgField(person, orgName),
       Merge(EmailField(person),
        Merge(TelField(person), AdrField(person))))))))

\* org.people.find(p => p.org)?.org
RECURSIVE FindOrgName(_)
FindOrgName(people) ==
  IF people = <<>> THEN Undefined
  ELSE IF Truthy(Get(people[1], "org")) THEN Get(people[1], "org")
  ELSE FindOrgName(Tail(people))

\* The person literal handed to yCardPersonToVCard for a job.
JobPerson(person, job) ==
  Merge(person,
        [title |-> Or2(Get(job, "role"), Get(job, "title")),
         org |-> Or2(Get(job, "org"), Get(person, "org")),
         org_unit |-> Or2(Get(job, "org_unit"), Get(person, "org_unit")),
         manager |-> Or2(Get(job, "manager"), Get(person, "manager"))])

\* if (jobCard.uid) jobCard.uid = `${jobCard.uid}-job-${index}`
JobUid(uid, index) ==
  IF StrTruthy(uid) THEN uid \o <<"-", "j", "o", "b", "-">> \o ToDecimal(index) ELSE uid

JobCard(person, job, index, orgName) ==
  LET c == yCardPersonToVCard(JobPerson(person, job), orgName)
  IN  [c EXCEPT !.uid = JobUid(c.uid, index)]

\* Mutant of SkipJob: job 0 skipped whether or not the person has a title.
SkipJob_Always(person, index) == index = 0

\* if (index === 0 && !person.title) continue
SkipJob(person, index) == index = 0 /\ ~Truthy(Get(person, "title"))

\* person.jobs.length, 0 when the person has no jobs array.
JobCount(person) == IF Truthy(Get(person, "jobs")) THEN Len(Get(person, "jobs").v) ELSE 0

\* The cards pushed by the for loop over person.jobs from position index on.
RECURSIVE JobCards(_, _, _)
JobCards(person, index, orgName) ==
  IF index >= JobCount(person) THEN <<>>
  ELSE (IF SkipJob(person, index) THEN <<>>
        ELSE <<JobCard(person, Get(person, "jobs").v[index + 1], index, orgName)>>)
       \o JobCards(person, index + 1, orgName)

\* The cards pushed by the forEach over the people.
RECURSIVE PeopleCards(_, _)
PeopleCards(people, orgName) ==
  IF people = <<>> THEN <<>>
  ELSE <<yCardPersonToVCard(people[1], orgName)>> \o JobCards(people[1], 0, orgName)
       \o PeopleCards(Tail(people), orgName)

\* yCardToVCard as a function of the document (the value the stepwise actions
\* below arrive at).
yCardToVCard(doc) == PeopleCards(doc.people, FindOrgName(doc.people))

(***************************************************************************)
(* Inputs of the expansion: documents of one or two Persons (only the      *)
(* first Person of a document may have an org_unit)                        *)
(***************************************************************************)
MaxJobs == 2

\* A job with a role only, and a job with its own organization.
RoleOnlyJob == [role |-> Str(<<"r">>)]
OwnOrgJob == [role |-> Str(<<"s">>), org |-> Str(<<"q">>)]

\* jobs arrays of up to MaxJobs entries in which the two kinds of job alternate.
JobLists ==
  {[i \in 1..k |-> IF (i + first) % 2 = 0 THEN RoleOnlyJob ELSE OwnOrgJob] :
     first \in {0, 1}, k \in 0..MaxJobs}

PersonUids == {Str(<<"u">>), Str(<<>>)}

\* A uid a Person may carry that has the form of a job uid of another Person.
JobLikeUid == Str(<<"u", "-", "j", "o", "b", "-", "0">>)
PersonTitles == {Absent, Str(<<"t">>)}
PersonOrgs == {Absent, Str(<<"o">>), Str(<<"p">>)}
PersonOrgUnits == {Absent, Str(<<"d">>)}

\* Every Person has the same name, email, phone and address.
PersonInput(u, t, o, ou, hasJobs, jl) ==
  Present([uid |-> u, name |-> Str(<<"a">>), title |-> t, org |-> o, org_unit |-> ou,
           email |-> Str(<<"e">>), phone |-> Arr(<<Str(<<"5">>)>>),
           address |-> Obj([city |-> <<"c">>]),
           jobs |-> IF hasJobs THEN Arr(jl) ELSE Absent])

InitExpand ==
  /\ \E n \in 1..2 :
       \E u \in [1..n -> PersonUids \cup {JobLikeUid}], t \in [1..n -> PersonTitles],
          o \in [1..n -> PersonOrgs], ou \in [1..n -> PersonOrgUnits],
          hj \in [1..n -> BOOLEAN], jl \in [1..n -> JobLists] :
         /\ \A i \in 1..n : ~hj[i] => jl[i] = <<>>
         /\ \A i \in 2..n : ou[i] = Absent
         /\ \A i \in 1..n :
              u[i] = JobLikeUid => (i = 2 /\ t[i] = Absent /\ o[i] = Absent /\ ~hj[i])
         /\ org = [people |-> [i \in 1..n |-> PersonInput(u[i], t[i], o[i], ou[i], hj[i], jl[i])]]
  /\ cards = <<>>
  /\ pidx = 1
  /\ jidx = -1
  /\ NormIdle
  /\ WireIdle
  /\ ContractIdle
  /\ EscapeIdle

\* cards.push(yCardPersonToVCard(person, orgName)) for the person at pidx.
ExpandPrimary ==
  /\ pidx <= Len(org.people)
  /\ jidx = -1
  /\ cards' = Append(cards, yCardPersonToVCard(org.people[pidx], FindOrgName(org.people)))
  /\ jidx' = 0
  /\ UNCHANGED <<org, pidx, nvars, wvars, cvars, svars>>

\* One iteration of the for loop over person.jobs that hits `continue`.
ExpandJobSkip ==
  /\ pidx <= Len(org.people)
  /\ jidx >= 0
  /\ jidx < JobCount(org.people[pidx])
  /\ SkipJob(org.people[pidx], jidx)
  /\ jidx' = jidx + 1
  /\ UNCHANGED <<org, cards, pidx, nvars, wvars, cvars, svars>>

\* One iteration of the for loop that pushes the job's card.
ExpandJob ==
  /\ pidx <= Len(org.people)
  /\ jidx >= 0
  /\ jidx < JobCount(org.people[pidx])
  /\ ~SkipJob(org.people[pidx], jidx)
  /\ cards' = Append(cards, JobCard(org.people[pidx], Get(org.people[pidx], "jobs").v[jidx + 1],
                                    jidx, FindOrgName(org.people)))
  /\ jidx' = jidx + 1
  /\ UNCHANGED <<org, pidx, nvars, wvars, cvars, svars>>

\* The person has no (more) jobs: the forEach moves to the next person.
ExpandEndPerson ==
  /\ pidx <= Len(org.people)
  /\ jidx >= 0
  /\ jidx >= JobCount(org.people[pidx])
  /\ pidx' = pidx + 1
  /\ jidx' = -1
  /\ UNCHANGED <<org, cards, nvars, wvars, cvars, svars>>

NextExpand == ExpandPrimary \/ ExpandJobSkip \/ ExpandJob \/ ExpandEndPerson

SpecExpand == InitExpand /\ [][NextExpand]_vars

ExpandDone == npc = "idle" /\ li = 0 /\ pidx > Len(org.people)

(***************************************************************************)
(* String primitives used by the codec                                     *)
(***************************************************************************)
BS == "\\"
NL == "\n"
CR == "\r"

LowerCase ==
  <<"a", "b", "c", "d", "e", "f", "g", "h", "i", "j", "k", "l", "m",
    "n", "o", "p", "q", "r", "s", "t", "u", "v", "w", "x", "y", "z">>
UpperCase ==
  <<"A", "B", "C", "D", "E", "F", "G", "H", "I", "J", "K", "L", "M",
    "N", "O", "P", "Q", "R", "S", "T", "U", "V", "W", "X", "Y", "Z">>

\* String.prototype.toUpperCase
ToUpperCase(s) ==
  [i \in 1..Len(s) |->
     IF \E j \in 1..Len(LowerCase) : LowerCase[j] = s[i]
     THEN UpperCase[CHOOSE j \in 1..Len(LowerCase) : LowerCase[j] = s[i]]
     ELSE s[i]]

IsSpace(c) == c \in {" ", "\t", NL, CR}

\* String.prototype.trim
RECURSIVE TrimStart(_)
TrimStart(s) == IF s # <<>> /\ IsSpace(s[1]) THEN TrimStart(Tail(s)) ELSE s
RECURSIVE TrimEnd(_)
TrimEnd(s) ==
  IF s # <<>> /\ IsSpace(s[Len(s)]) THEN TrimEnd(SubSeq(s, 1, Len(s) - 1)) ELSE s
Trim(s) == TrimEnd(TrimStart(s))

\* String.prototype.indexOf for a one-character needle, 1-based; 0 when not found.
RECURSIVE IndexFrom(_, _, _)
IndexFrom(s, c, i) ==
  IF i > Len(s) THEN 0 ELSE IF s[i] = c THEN i ELSE IndexFrom(s, c, i + 1)
IndexOf(s, c) == IndexFrom(s, c, 1)

\* String.prototype.split for a one-character separator.
RECURSIVE Split(_, _)
Split(s, c) ==
  LET i == IndexOf(s, c)
  IN  IF i = 0 THEN <<s>>
      ELSE <<SubSeq(s, 1, i - 1)>> \o Split(SubSeq(s, i + 1, Len(s)), c)

\* Array.prototype.join
RECURSIVE Join(_, _)
Join(parts, sep) ==
  IF parts = <<>> THEN <<>>
  ELSE IF Len(parts) = 1 THEN parts[1]
  ELSE parts[1] \o sep \o Join(Tail(parts), sep)

\* String.prototype.replace with a global pattern that matches the literal pat.
RECURSIVE ReplaceAll(_, _, _)
ReplaceAll(s, pat, rep) ==
  IF Len(s) < Len(pat) THEN s
  ELSE IF SubSeq(s, 1, Len(pat)) = pat
       THEN rep \o ReplaceAll(SubSeq(s, Len(pat) + 1, Len(s)), pat, rep)
       ELSE <<s[1]>> \o ReplaceAll(Tail(s), pat, rep)

(***************************************************************************)
(* vCard codec: escaping                                                   *)
(***************************************************************************)
\* Mutant of escapeVCardValue: the newline is left as it is.
escapeVCardValue_NoNewline(value) ==
  ReplaceAll(ReplaceAll(ReplaceAll(value,
    <<BS>>, <<BS, BS>>), <<",">>, <<BS, ",">>), <<";">>, <<BS, ";">>)

escapeVCardValue(value) ==
  ReplaceAll(ReplaceAll(ReplaceAll(ReplaceAll(value,
    <<BS>>, <<BS, BS>>), <<",">>, <<BS, ",">>), <<";">>, <<BS, ";">>), <<NL>>, <<BS, "n">>)

unescapeVCardValue(value) ==
  ReplaceAll(ReplaceAll(ReplaceAll(ReplaceAll(value,
    <<BS, "n">>, <<NL>>), <<BS, ";">>, <<";">>), <<BS, ",">>, <<",">>), <<BS, BS>>, <<BS>>)

\* values.map(escapeVCardValue)
EscapeAll(xs) == [i \in 1..Len(xs) |-> escapeVCardValue(xs[i])]

\* value.split(';').map(unescapeVCardValue)
UnescapeAll(xs) == [i \in 1..Len(xs) |-> unescapeVCardValue(xs[i])]

\* parts.map(s => s.trim())
TrimAll(xs) == [i \in 1..Len(xs) |-> Trim(xs[i])]

(***************************************************************************)
(* escapeVCardValue followed by unescapeVCardValue on one string           *)
(***************************************************************************)
MaxStrLen == 2

ValueChars == {"a", "n", BS, ";", ",", NL}

\* The strings of at most MaxStrLen + 1 characters, the empty one included.
EscapeInputs == UNION {[1..k -> ValueChars] : k \in 0..(MaxStrLen + 1)}

InitEscape ==
  /\ sval \in EscapeInputs
  /\ escaped = <<>>
  /\ restored = <<>>
  /\ spc = "input"
  /\ NormIdle
  /\ ExpandIdle
  /\ WireIdle
  /\ ContractIdle

\* escapeVCardValue(sval) returns.
Escape ==
  /\ spc = "input"
  /\ escaped' = escapeVCardValue(sval)
  /\ spc' = "escaped"
  /\ UNCHANGED <<sval, restored, nvars, evars, wvars, cvars>>

\* unescapeVCardValue(escaped) returns.
Unescape ==
  /\ spc = "escaped"
  /\ restored' = unescapeVCardValue(escaped)
  /\ spc' = "restored"
  /\ UNCHANGED <<sval, escaped, nvars, evars, wvars, cvars>>

NextEscape == Escape \/ Unescape

SpecEscape == InitEscape /\ [][NextEscape]_vars

(***************************************************************************)
(* vCard codec: stringifyVCard                                             *)
(***************************************************************************)
\* The card has key k with a truthy string.
HasStr(card, k) == k \in DOMAIN card /\ StrTruthy(card[k])

\* The card has key k with a non-empty array.
HasList(card, k) == k \in DOMAIN card /\ Len(card[k]) > 0

\* `;TYPE=${type}` when the entry has a truthy type, else ''.
TypeParam(entry) ==
  IF StrTruthy(entry.type) THEN <<";", "T", "Y", "P", "E", "=">> \o entry.type ELSE <<>>

\* The array under key k, empty when the card has no such key.
ListOf(card, k) == IF k \in DOMAIN card THEN card[k] ELSE <<>>

\* Mutant of CardLines: the TITLE line is pushed before the N line.
CardLines_TitleFirst(card) ==
  <<<<"B", "E", "G", "I", "N", ":", "V", "C", "A", "R", "D">>,
    <<"V", "E", "R", "S", "I", "O", "N", ":", "4", ".", "0">>>>
  \o (IF HasStr(card, "uid") THEN <<<<"U", "I", "D", ":">> \o card["uid"]>> ELSE <<>>)
  \o (IF HasStr(card, "fn") THEN <<<<"F", "N", ":">> \o escapeVCardValue(card["fn"])>> ELSE <<>>)
  \o (IF HasStr(card, "title")
      THEN <<<<"T", "I", "T", "L", "E", ":">> \o escapeVCardValue(card["title"])>> ELSE <<>>)
  \o (IF HasList(card, "n")
      THEN <<<<"N", ":">> \o Join(EscapeAll(card["n"]), <<";">>)>> ELSE <<>>)
  \o (IF HasList(card, "org")
      THEN <<<<"O", "R", "G", ":">> \o Join(EscapeAll(card["org"]), <<";">>)>>
      ELSE <<>>)
  \o [i \in 1..Len(ListOf(card, "email")) |->
        <<"E", "M", "A", "I", "L">> \o TypeParam(card["email"][i]) \o <<":">>
          \o card["email"][i].value]
  \o [i \in 1..Len(ListOf(card, "tel")) |->
        <<"T", "E", "L">> \o TypeParam(card["tel"][i]) \o <<":">> \o card["tel"][i].value]
  \o [i \in 1..Len(ListOf(card, "adr")) |->
        <<"A", "D", "R">> \o TypeParam(card["adr"][i]) \o <<":">>
          \o Join(EscapeAll(card["adr"][i].value), <<";">>)]
  \o [i \in 1..Len(ListOf(card, "url")) |-> <<"U", "R", "L", ":">> \o card["url"][i]]
  \o (IF HasStr(card, "note")
      THEN <<<<"N", "O", "T", "E", ":">> \o escapeVCardValue(card["note"])>> ELSE <<>>)
  \o (IF HasList(card, "categories")
      THEN <<<<"C", "A", "T", "E", "G", "O", "R", "I", "E", "S", ":">>
               \o Join(card["categories"], <<",">>)>>
      ELSE <<>>)
  \o <<<<"E", "N", "D", ":", "V", "C", "A", "R", "D">>>>

\* The lines of one card, in the order stringifyVCard pushes them.
CardLines(card) ==
  <<<<"B", "E", "G", "I", "N", ":", "V", "C", "A", "R", "D">>,
    <<"V", "E", "R", "S", "I", "O", "N", ":", "4", ".", "0">>>>
  \o (IF HasStr(card, "uid") THEN <<<<"U", "I", "D", ":">> \o card["uid"]>> ELSE <<>>)
  \o (IF HasStr(card, "fn") THEN <<<<"F", "N", ":">> \o escapeVCardValue(card["fn"])>> ELSE <<>>)
  \o (IF HasList(card, "n")
      THEN <<<<"N", ":">> \o Join(EscapeAll(card["n"]), <<";">>)>> ELSE <<>>)
  \o (IF HasStr(card, "title")
      THEN <<<<"T", "I", "T", "L", "E", ":">> \o escapeVCardValue(card["title"])>> ELSE <<>>)
  \o (IF HasList(card, "org")
      THEN <<<<"O", "R", "G", ":">> \o Join(EscapeAll(card["org"]), <<";">>)>>
      ELSE <<>>)
  \o [i \in 1..Len(ListOf(card, "email")) |->
        <<"E", "M", "A", "I", "L">> \o TypeParam(card["email"][i]) \o <<":">>
          \o card["email"][i].value]
  \o [i \in 1..Len(ListOf(card, "tel")) |->
        <<"T", "E", "L">> \o TypeParam(card["tel"][i]) \o <<":">> \o card["tel"][i].value]
  \o [i \in 1..Len(ListOf(card, "adr")) |->
        <<"A", "D", "R">> \o TypeParam(card["adr"][i]) \o <<":">>
          \o Join(EscapeAll(card["adr"][i].value), <<";">>)]
  \o [i \in 1..Len(ListOf(card, "url")) |-> <<"U", "R", "L", ":">> \o card["url"][i]]
  \o (IF HasStr(card, "note")
      THEN <<<<"N", "O", "T", "E", ":">> \o escapeVCardValue(card["note"])>> ELSE <<>>)
  \o (IF HasList(card, "categories")
      THEN <<<<"C", "A", "T", "E", "G", "O", "R", "I", "E", "S", ":">>
               \o Join(card["categories"], <<",">>)>>
      ELSE <<>>)
  \o <<<<"E", "N", "D", ":", "V", "C", "A", "R", "D">>>>

stringifyVCard(cs) ==
  Join([i \in 1..Len(cs) |-> Join(CardLines(cs[i]), <<CR, NL>>)], <<CR, NL, CR, NL>>)

(***************************************************************************)
(* vCard codec: parseVCard                                                 *)
(***************************************************************************)
\* vcfString.split('\n').map(line => line.trim())
SplitLines(vcfString) == TrimAll(Split(vcfString, NL))

\* The parameters object of parseVCardProperty: a later part overwrites an earlier
\* one of the same name; a part without '=' is ignored.
RECURSIVE ParseParameters(_, _)
ParseParameters(parts, acc) ==
  IF parts = <<>> THEN acc
  ELSE LET param == parts[1]
           eq == IndexOf(param, "=")
       IN  IF eq = 0 THEN ParseParameters(Tail(parts), acc)
           ELSE ParseParameters(Tail(parts),
                  Merge(acc, [k \in {SubSeq(param, 1, eq - 1)} |->
                                SubSeq(param, eq + 1, Len(param))]))

\* parseVCardProperty for a line that has a colon.
parseVCardProperty(line) ==
  LET colonIndex == IndexOf(line, ":")
      parts == Split(SubSeq(line, 1, colonIndex - 1), ";")
  IN  [name |-> ToUpperCase(parts[1]),
       value |-> SubSeq(line, colonIndex + 1, Len(line)),
       parameters |-> ParseParameters(Tail(parts), <<>>)]

\* parameters?.TYPE
TypeOf(property) ==
  IF <<"T", "Y", "P", "E">> \in DOMAIN property.parameters
  THEN property.parameters[<<"T", "Y", "P", "E">>]
  ELSE Undef

\* The card with key k set to value x.
SetKey(card, k, x) == Merge(card, [j \in {k} |-> x])

\* The card with x pushed on the array under key k (created when missing).
PushKey(card, k, x) == SetKey(card, k, Append(ListOf(card, k), x))

addPropertyToCard(card, property) ==
  LET name == property.name
      value == property.value
  IN  IF name = <<"V", "E", "R", "S", "I", "O", "N">> THEN SetKey(card, "version", value)
      ELSE IF name = <<"U", "I", "D">> THEN SetKey(card, "uid", value)
      ELSE IF name = <<"F", "N">> THEN SetKey(card, "fn", unescapeVCardValue(value))
      ELSE IF name = <<"N">>
        THEN SetKey(card, "n", UnescapeAll(Split(value, ";")))
      ELSE IF name = <<"T", "I", "T", "L", "E">>
        THEN SetKey(card, "title", unescapeVCardValue(value))
      ELSE IF name = <<"O", "R", "G">>
        THEN SetKey(card, "org", UnescapeAll(Split(value, ";")))
      ELSE IF name = <<"E", "M", "A", "I", "L">>
        THEN PushKey(card, "email", [value |-> value, type |-> TypeOf(property)])
      ELSE IF name = <<"T", "E", "L">>
        THEN PushKey(card, "tel", [value |-> value, type |-> TypeOf(property)])
      ELSE IF name = <<"A", "D", "R">>
        THEN PushKey(card, "adr", [value |-> UnescapeAll(Split(value, ";")),
                                   type |-> TypeOf(property)])
      ELSE IF name = <<"U", "R", "L">> THEN PushKey(card, "url", value)
      ELSE IF name = <<"N", "O", "T", "E">>
        THEN SetKey(card, "note", unescapeVCardValue(value))
      ELSE IF name = <<"C", "A", "T", "E", "G", "O", "R", "I", "E", "S">>
        THEN SetKey(card, "categories", TrimAll(Split(value, ",")))
      ELSE card

BeginLine == <<"B", "E", "G", "I", "N", ":", "V", "C", "A", "R", "D">>
EndLine == <<"E", "N", "D", ":", "V", "C", "A", "R", "D">>

\* if (!inCard || !line || line.startsWith('#')) continue
SkippedLine(line) ==
  IF ~inCard THEN TRUE ELSE IF line = <<>> THEN TRUE ELSE line[1] = "#"

(***************************************************************************)
(* Inputs of the codec: one record with an optional uid and one further    *)
(* property, one record with every property, or two records.              *)
(***************************************************************************)
\* The non-empty strings of at most MaxStrLen characters.
Strings == UNION {[1..k -> ValueChars] : k \in 1..MaxStrLen}

Work == <<"w", "o", "r", "k">>

FullRecord ==
  [version |-> <<"4", ".", "0">>, uid |-> <<"u">>, fn |-> <<"a", " ", "b">>,
   n |-> <<<<"b">>, <<"a">>, <<>>, <<>>, <<>>>>, title |-> <<"t">>,
   org |-> <<<<"o">>, <<"d">>>>,
   email |-> <<[value |-> <<"a", "@", "o">>, type |-> Work],
               [value |-> <<"b", "@", "o">>, type |-> Undef]>>,
   tel |-> <<[value |-> <<"5">>, type |-> Work]>>,
   adr |-> <<[value |-> <<<<>>, <<>>, <<"s">>, <<"c">>, <<>>, <<"9">>, <<>>>>, type |-> Work]>>,
   url |-> <<<<"h", "/", "a">>, <<"h", "/", "b">>>>, note |-> <<"n">>,
   categories |-> <<<<"a">>, <<"b">>>>]

\* The records with one property named f besides version (and uid).
OneProperty(f) ==
  IF f \in {"fn", "title", "note"} THEN {[k \in {f} |-> s] : s \in Strings}
  ELSE IF f = "n"
    THEN {[n |-> <<s, g, <<>>, <<>>, <<>>>>] : s \in Strings, g \in {<<>>, <<"b">>}}
  ELSE IF f = "org"
    THEN {[org |-> <<s>> \o u] : s \in Strings, u \in {<<>>, <<<<"d">>>>}}
  ELSE IF f = "adr"
    THEN {[adr |-> <<[value |-> <<<<>>, <<>>, s, <<"c">>, <<>>, <<>>, <<>>>>, type |-> t]>>] :
            s \in Strings, t \in {Undef, Work}}
  ELSE IF f \in {"email", "tel"}
    THEN {[k \in {f} |-> e] :
            e \in UNION {[1..k -> [value : {<<"a">>, <<"b">>}, type : {Undef, Work}]] :
                           k \in 1..2}}
  ELSE {[k \in {f} |-> e] : e \in UNION {[1..k -> {<<"a">>, <<"b">>}] : k \in 1..2}}

RecordProperties ==
  {"fn", "n", "title", "org", "email", "tel", "adr", "url", "note", "categories"}

InitWire ==
  /\ \/ \E f \in RecordProperties : \E r \in OneProperty(f) : \E u \in {<<>>, [uid |-> <<"u">>]} :
          recs = <<Merge([version |-> <<"4", ".", "0">>], Merge(u, r))>>
     \/ recs = <<FullRecord>>
     \/ recs = <<FullRecord, [version |-> <<"4", ".", "0">>, uid |-> <<"v">>]>>
  /\ text = stringifyVCard(recs)
  /\ lines = SplitLines(text)
  /\ li = 1
  /\ currentCard = <<>>
  /\ inCard = FALSE
  /\ parsed = <<>>
  /\ errors = <<>>
  /\ NormIdle
  /\ ExpandIdle
  /\ ContractIdle
  /\ EscapeIdle

\* The line is BEGIN:VCARD: a fresh currentCard.
ParseBegin ==
  /\ li >= 1 /\ li <= Len(lines)
  /\ lines[li] = BeginLine
  /\ currentCard' = [version |-> <<"4", ".", "0">>]
  /\ inCard' = TRUE
  /\ li' = li + 1
  /\ UNCHANGED <<recs, text, errors, lines, parsed, nvars, evars, cvars, svars>>

\* A push test that lets every card through.
HasProperties_Always(card) == TRUE

\* currentCard && Object.keys(currentCard).length > 1
HasProperties(card) == Cardinality(DOMAIN card) > 1

\* The line is END:VCARD: currentCard is pushed when it has more than one key.
ParseEnd ==
  /\ li >= 1 /\ li <= Len(lines)
  /\ lines[li] = EndLine
  /\ parsed' = IF HasProperties(currentCard) THEN Append(parsed, currentCard)
               ELSE parsed
  /\ inCard' = FALSE
  /\ li' = li + 1
  /\ UNCHANGED <<recs, text, errors, lines, currentCard, nvars, evars, cvars, svars>>

\* A line outside a card, an empty line or a # line.
ParseSkip ==
  /\ li >= 1 /\ li <= Len(lines)
  /\ lines[li] # BeginLine /\ lines[li] # EndLine
  /\ SkippedLine(lines[li])
  /\ li' = li + 1
  /\ UNCHANGED <<recs, text, errors, lines, currentCard, inCard, parsed, nvars, evars, cvars, svars>>

\* A content line inside a card: parsed and added to currentCard (a line without a
\* colon parses to null and adds nothing).
ParseProperty ==
  /\ li >= 1 /\ li <= Len(lines)
  /\ lines[li] # BeginLine /\ lines[li] # EndLine
  /\ ~SkippedLine(lines[li])
  /\ currentCard' = IF IndexOf(lines[li], ":") = 0 THEN currentCard
                    ELSE addPropertyToCard(currentCard, parseVCardProperty(lines[li]))
  /\ li' = li + 1
  /\ UNCHANGED <<recs, text, errors, lines, inCard, parsed, nvars, evars, cvars, svars>>

NextWire == ParseBegin \/ ParseEnd \/ ParseSkip \/ ParseProperty

SpecWire == InitWire /\ [][NextWire]_vars

\* parseVCard has returned its cards array.
WireDone == li >= 1 /\ li > Len(lines)

(***************************************************************************)
(* parseVCard on arbitrary text: every text of up to MaxLines lines over a *)
(* small alphabet of lines, joined by line feeds, and some longer texts.   *)
(***************************************************************************)
MaxLines == 4

LineAlphabet ==
  {BeginLine, EndLine, <<"F", "N", ":", "a">>, <<"N", ":", "b", ";", "a">>,
   <<"E", "M", "A", "I", "L", ":", "a">>, <<"E", "M", "A", "I", "L", ":", "b">>,
   <<"C", "A", "T", "E", "G", "O", "R", "I", "E", "S", ":", "x">>,
   <<"C", "A", "T", "E", "G", "O", "R", "I", "E", "S", ":", "y", ",", "z">>}

\* Longer texts: every repeatable property twice; short ADR; blank, comment and
\* colon-less lines; VERSION-only blocks; CRLF line ends; a block with an unknown property.
LongTexts ==
  {<<BeginLine, <<"T", "E", "L", ":", "5">>, <<"T", "E", "L", ";", "T", "Y", "P", "E", "=", "h", ":", "6">>,
     <<"A", "D", "R", ":", ";", ";", "s">>, <<"A", "D", "R", ":", ";", ";", "t", ";", "c", ";", ";", ";">>,
     <<"U", "R", "L", ":", "h">>, <<"U", "R", "L", ":", "i">>, EndLine>>,
   <<BeginLine, <<"#", "c">>, <<>>, <<"j", "u", "n", "k">>, <<"f", "n", ":", "a">>, EndLine,
     BeginLine, <<"V", "E", "R", "S", "I", "O", "N", ":", "4", ".", "0">>, EndLine>>,
   <<BeginLine \o <<CR>>, <<"F", "N", ":", "a", CR>>, EndLine \o <<CR>>>>,
   <<BeginLine, <<"V", "E", "R", "S", "I", "O", "N", ":", "3", ".", "0">>, EndLine>>,
   <<BeginLine, <<"X", "-", "A", ":", "1">>, EndLine>>}

\* The line breaks a file may use: LF, CRLF and a bare CR.
LineEndings == {<<NL>>, <<CR, NL>>, <<CR>>}

\* The lines of ls with seps[i] written after line i (none after the last).
RECURSIVE JoinWith(_, _)
JoinWith(ls, seps) ==
  IF Len(ls) <= 1 THEN Join(ls, <<>>)
  ELSE ls[1] \o seps[1] \o JoinWith(Tail(ls), Tail(seps))

\* One record and two records, to be written with every mixture of line breaks.
EndingContents ==
  {<<BeginLine, <<"F", "N", ":", "a">>, EndLine>>,
   <<BeginLine, <<"F", "N", ":", "a">>, EndLine, BeginLine, <<"F", "N", ":", "b">>, EndLine>>}

InitParse ==
  /\ \/ \E k \in 1..MaxLines : \E ls \in [1..k -> LineAlphabet] : text = Join(ls, <<NL>>)
     \/ \E ls \in LongTexts : text = Join(ls, <<NL>>)
     \/ \E ls \in EndingContents :
          \E seps \in [1..(Len(ls) - 1) -> LineEndings] : text = JoinWith(ls, seps)
  /\ lines = SplitLines(text)
  /\ recs = <<>>
  /\ li = 1
  /\ currentCard = <<>>
  /\ inCard = FALSE
  /\ parsed = <<>>
  /\ errors = <<>>
  /\ NormIdle
  /\ ExpandIdle
  /\ ContractIdle
  /\ EscapeIdle

SpecParse == InitParse /\ [][NextWire]_vars

(***************************************************************************)
(* Contraction: vCardToYCardPerson and vCardToYCard                        *)
(***************************************************************************)
\* x || undefined for a string slot, as a Person value.
OrUndefined(x) == IF StrTruthy(x) THEN Str(x) ELSE Undefined

\* `vcard-${Date.now()}-${Math.random().toString(36).substr(2, 9)}`
GeneratedUid(now, rnd) == <<"v", "c", "a", "r", "d", "-">> \o ToDecimal(now) \o <<"-">> \o rnd

\* uid: card.uid || the generated uid
ContractUid(card, now, rnd) ==
  [uid |-> IF HasStr(card, "uid") THEN Str(card["uid"]) ELSE Str(GeneratedUid(now, rnd))]

\* surname/name from card.n when it has two components, else from card.fn.
ContractName(card) ==
  IF "n" \in DOMAIN card /\ Len(card["n"]) >= 2
  THEN [surname |-> OrUndefined(card["n"][1]), name |-> OrUndefined(card["n"][2])]
  ELSE IF HasStr(card, "fn")
  THEN LET nameParts == Split(Trim(card["fn"]), " ")
       IN  IF Len(nameParts) >= 2
           THEN [name |-> Str(nameParts[1]), surname |-> Str(Join(Tail(nameParts), <<" ">>))]
           ELSE [name |-> Str(card["fn"])]
  ELSE <<>>

ContractTitle(card) == IF HasStr(card, "title") THEN [title |-> Str(card["title"])] ELSE <<>>

ContractOrg(card) ==
  IF HasList(card, "org")
  THEN Merge([org |-> Str(card["org"][1])],
             IF Len(card["org"]) > 1 THEN [org_unit |-> Str(card["org"][2])] ELSE <<>>)
  ELSE <<>>

\* A single address becomes a string, several become an array.
ContractEmail(card) ==
  IF HasList(card, "email")
  THEN IF Len(card["email"]) = 1 THEN [email |-> Str(card["email"][1].value)]
       ELSE [email |-> Arr([i \in 1..Len(card["email"]) |-> card["email"][i].value])]
  ELSE <<>>

ContractPhone(card) ==
  IF HasList(card, "tel")
  THEN [phone |-> Arr([i \in 1..Len(card["tel"]) |->
                        Obj([type |-> IF StrTruthy(card["tel"][i].type)
                                      THEN card["tel"][i].type ELSE Work,
                             number |-> card["tel"][i].value])])]
  ELSE <<>>

\* component || undefined inside the address object.
AdrComponent(x) == IF StrTruthy(x) THEN x ELSE Undef

ContractAddress(card) ==
  IF HasList(card, "adr") /\ Len(card["adr"][1].value) >= 7
  THEN LET v == card["adr"][1].value
       IN  [address |-> Obj([street |-> AdrComponent(v[3]), city |-> AdrComponent(v[4]),
                             state |-> AdrComponent(v[5]), postal_code |-> AdrComponent(v[6]),
                             country |-> AdrComponent(v[7])])]
  ELSE <<>>

\* Mutant of vCardToYCardPerson: the record's title is also filed as a job.
vCardToYCardPerson_WithJobs(card, now, rnd) ==
  Merge(ContractUid(card, now, rnd),
   Merge(ContractName(card),
    Merge(ContractTitle(card),
     Merge(ContractOrg(card),
      Merge(ContractEmail(card),
       Merge(ContractPhone(card),
        Merge(ContractAddress(card),
              IF HasStr(card, "title")
              THEN [jobs |-> Arr(<<[role |-> Str(card["title"])]>>)] ELSE <<>>)))))))

\* now and rnd are what Date.now() and Math.random() return during the call.
vCardToYCardPerson(card, now, rnd) ==
  Merge(ContractUid(card, now, rnd),
   Merge(ContractName(card),
    Merge(ContractTitle(card),
     Merge(ContractOrg(card),
      Merge(ContractEmail(card),
       Merge(ContractPhone(card), ContractAddress(card)))))))

(***************************************************************************)
(* Inputs of the contraction: the expansion of a one-Person document, or a *)
(* list of one or two records as the parser can return them.  vCardToYCard *)
(* is called twice on the same list.                                       *)
(***************************************************************************)
\* What Date.now() and Math.random().toString(36).substr(2, 9) return during one
\* call of vCardToYCardPerson: two possible environments.
Entropy == {[now |-> 1, rnd |-> <<"x">>], [now |-> 2, rnd |-> <<"y">>]}

\* Records without a uid, with a short n, with fn only, with several addresses.
LooseRecords ==
  {[version |-> <<"4", ".", "0">>, fn |-> <<"a", " ", "b">>],
   [version |-> <<"4", ".", "0">>, fn |-> <<"a">>, uid |-> <<>>],
   [version |-> <<"4", ".", "0">>, uid |-> <<"w">>, n |-> <<<<"b">>>>, fn |-> <<"a", " ", "b", " ", "c">>],
   [version |-> <<"4", ".", "0">>, uid |-> <<"w">>, n |-> <<<<>>, <<"a">>>>,
    adr |-> <<[value |-> <<<<>>, <<>>, <<"s">>>>, type |-> Undef]>>],
   FullRecord}

InitContract ==
  /\ \/ \E u \in PersonUids, t \in PersonTitles, o \in {Absent, Str(<<"o">>)}, jl \in JobLists :
          vcards = yCardToVCard([people |-> <<PersonInput(u, t, o, Absent, TRUE, jl)>>])
     \/ \E r \in LooseRecords : vcards = <<r>>
     \/ \E r \in LooseRecords : vcards = <<FullRecord, r>>
  /\ cpeople = <<>>
  /\ cidx = 1
  /\ results = <<>>
  /\ NormIdle
  /\ ExpandIdle
  /\ WireIdle
  /\ EscapeIdle

\* One step of cards.map(card => vCardToYCardPerson(card)).
ContractCard ==
  /\ Len(results) < 2
  /\ cidx >= 1 /\ cidx <= Len(vcards)
  /\ \E g \in Entropy :
       cpeople' = Append(cpeople, vCardToYCardPerson(vcards[cidx], g.now, g.rnd))
  /\ cidx' = cidx + 1
  /\ UNCHANGED <<vcards, results, nvars, evars, wvars, svars>>

\* return { people }; the caller then makes its second call on the same cards.
ContractReturn ==
  /\ Len(results) < 2
  /\ cidx >= 1 /\ cidx > Len(vcards)
  /\ results' = Append(results, [people |-> cpeople])
  /\ cpeople' = <<>>
  /\ cidx' = 1
  /\ UNCHANGED <<vcards, nvars, evars, wvars, svars>>

NextContract == ContractCard \/ ContractReturn

SpecContract == InitContract /\ [][NextContract]_vars

(***************************************************************************)
(* JobSchema: the object schema of one job, then its transform             *)
(*                                                                         *)
(* A number is held in tenths, so that 0.8 is Num(8) and 1 is Num(FteOne). *)
(***************************************************************************)
Num(n) == [t |-> "number", v |-> n]
Bool(b) == [t |-> "boolean", v |-> b]

FteOne == 10

JobStringKeys == {"role", "title", "manager", "jefe", "org_unit", "org"}
JobShapeKeys == JobStringKeys \cup {"fte", "dotted", "primary"}

\* The keys in the order the shape declares them; issues are reported in this order.
JobShapeOrder ==
  <<"role", "title", "fte", "manager", "jefe", "dotted", "org_unit", "org", "primary">>

Issue(code, path) == [code |-> code, path |-> path]

\* .min(0).max(1) on fte with the max left out.
FteRangeIssues_NoMax(n, path) ==
  IF n < 0 THEN <<Issue("too_small", path)>> ELSE <<>>

\* z.number().min(0).max(1): both checks run on a number.
FteRangeIssues(n, path) ==
  (IF n < 0 THEN <<Issue("too_small", path)>> ELSE <<>>)
    \o (IF n > FteOne THEN <<Issue("too_big", path)>> ELSE <<>>)

\* The issues the schema of key k raises for the value x of an input job.
JobKeyIssues(k, x, path) ==
  IF x.t \in {"absent", "undefined"} THEN <<>>
  ELSE IF k \in JobStringKeys
    THEN IF x.t = "string" THEN <<>> ELSE <<Issue("invalid_type", path \o <<k>>)>>
  ELSE IF k = "fte"
    THEN IF x.t = "number" THEN FteRangeIssues(x.v, path \o <<k>>)
         ELSE <<Issue("invalid_type", path \o <<k>>)>>
  ELSE IF k = "dotted"
    THEN IF x.t = "array" THEN <<>> ELSE <<Issue("invalid_type", path \o <<k>>)>>
  ELSE IF x.t = "boolean" THEN <<>> ELSE <<Issue("invalid_type", path \o <<k>>)>>

\* The issues of the whole object: every key of the shape is visited.
RECURSIVE JobIssuesFrom(_, _, _)
JobIssuesFrom(job, path, i) ==
  IF i > Len(JobShapeOrder) THEN <<>>
  ELSE JobKeyIssues(JobShapeOrder[i],
                    IF JobShapeOrder[i] \in DOMAIN job THEN job[JobShapeOrder[i]]
                    ELSE Undefined,
                    path)
         \o JobIssuesFrom(job, path, i + 1)

JobIssues(job, path) == JobIssuesFrom(job, path, 1)

\* The parsed object: unknown keys stripped, .default() values where the key has no value.
JobDefaults(job) ==
  Merge([fte |-> Num(FteOne), dotted |-> Arr(<<>>), primary |-> Bool(FALSE)],
        [k \in {x \in DOMAIN job \cap JobShapeKeys : job[x].t # "undefined"} |-> job[k]])

\* The transform: ({...job, role: job.role || job.title, manager: job.manager || job.jefe}).
JobTransform(job) ==
  Merge(job, [role |-> Or2(Get(job, "role"), Get(job, "title")),
              manager |-> Or2(Get(job, "manager"), Get(job, "jefe"))])

\* JobSchema.safeParse.
JobSafeParse(input) ==
  IF JobIssues(input, <<>>) = <<>>
  THEN [success |-> TRUE, data |-> JobTransform(JobDefaults(input))]
  ELSE [success |-> FALSE, issues |-> JobIssues(input, <<>>)]

(* Inputs of the job schema.                                               *)
JobRoles == {Absent, Str(<<>>), Str(<<"r">>)}
JobTitles == {Absent, Str(<<"t">>)}
JobManagers == {Absent, Str(<<>>), Str(<<"m">>)}
JobJefes == {Absent, Str(<<"x">>)}
JobFtes == {Absent, Num(-1), Num(0), Num(8), Num(FteOne), Num(15), Str(<<"1">>)}
JobDotted == {Absent, Arr(<<>>), Arr(<<Str(<<"m">>)>>)}
JobPrimary == {Absent, Bool(TRUE), Bool(FALSE)}

JobInput(r, t, m, j, f, d, p) ==
  Present([role |-> r, title |-> t, manager |-> m, jefe |-> j, fte |-> f, dotted |-> d,
           primary |-> p])

InitJob ==
  /\ \E r \in JobRoles, t \in JobTitles, m \in JobManagers, j \in JobJefes :
       \E f \in JobFtes, d \in JobDotted, p \in JobPrimary :
         raw = JobInput(r, t, m, j, f, d, p)
  /\ nres = <<>>
  /\ npc = "input"
  /\ dups = <<>>
  /\ msgs = <<>>
  /\ ExpandIdle
  /\ WireIdle
  /\ ContractIdle
  /\ EscapeIdle

\* JobSchema.safeParse returns success with the transformed job.
JobParseOk ==
  /\ npc = "input"
  /\ JobSafeParse(raw).success
  /\ nres' = JobSafeParse(raw)
  /\ npc' = "done"
  /\ UNCHANGED <<raw, dups, msgs, evars, wvars, cvars, svars>>

\* JobSchema.safeParse returns a failure carrying the issues.
JobParseFail ==
  /\ npc = "input"
  /\ ~JobSafeParse(raw).success
  /\ nres' = JobSafeParse(raw)
  /\ npc' = "done"
  /\ UNCHANGED <<raw, dups, msgs, evars, wvars, cvars, svars>>

NextJob == JobParseOk \/ JobParseFail

SpecJob == InitJob /\ [][NextJob]_vars

(***************************************************************************)
(* YCardSchema: the document schema, YCardParser.parse, getErrorMessages   *)
(* and checkDuplicateUIDs                                                  *)
(*                                                                         *)
(* A document is [people |-> <<person, ...>>].  Every schema of the        *)
(* document adds its issues to the one ZodError of the call; none stops at *)
(* the first.  An array index in an issue path is written as its digit.    *)
(***************************************************************************)
MaxPeople == 3

\* The keys of PersonSchema in the order the shape declares them.
PersonShapeOrder ==
  <<"uid", "id", "name", "nombre", "displayName", "surname", "apellido", "sn", "lastName",
    "title", "puesto", "role", "email", "correo", "mail", "org", "organization", "company",
    "org_unit", "department", "ou", "manager", "jefe", "joushi", "boss", "phone", "tel",
    "address", "adr", "jobs", "i18n">>

\* z.array(JobSchema): the issues of every element, in order.
RECURSIVE JobsIssues(_, _, _)
JobsIssues(jobs, path, i) ==
  IF i > Len(jobs) THEN <<>>
  ELSE JobIssues(jobs[i], path \o <<Digit(i - 1)>>) \o JobsIssues(jobs, path, i + 1)

\* The issues the schema of key k raises for a person.
PersonKeyIssues(k, person, path) ==
  IF k \notin DOMAIN person
    THEN IF k = "uid" /\ ~UidRequired(person) THEN <<Issue("invalid_type", path \o <<k>>)>>
         ELSE <<>>
  ELSE IF ~FieldTypeOK(k, person[k]) THEN <<Issue("invalid_type", path \o <<k>>)>>
  ELSE IF k = "jobs" THEN JobsIssues(person[k].v, path \o <<k>>, 1)
  ELSE <<>>

RECURSIVE PersonIssuesFrom(_, _, _)
PersonIssuesFrom(person, path, i) ==
  IF i > Len(PersonShapeOrder) THEN <<>>
  ELSE PersonKeyIssues(PersonShapeOrder[i], person, path)
         \o PersonIssuesFrom(person, path, i + 1)

PersonIssues(person, path) == PersonIssuesFrom(person, path, 1)

\* z.array(PersonSchema): the issues of every element, in order.
RECURSIVE PeopleIssues(_, _, _)
PeopleIssues(people, path, i) ==
  IF i > Len(people) THEN <<>>
  ELSE PersonIssues(people[i], path \o <<Digit(i - 1)>>) \o PeopleIssues(people, path, i + 1)

\* A validation that gives up at the first issue.
YCardIssues_FirstOnly(doc) ==
  IF "people" \notin DOMAIN doc THEN <<Issue("invalid_type", <<"people">>)>>
  ELSE SubSeq(PeopleIssues(doc.people, <<"people">>, 1), 1, 1)

\* The issues of YCardSchema for a document.
YCardIssues(doc) ==
  IF "people" \notin DOMAIN doc THEN <<Issue("invalid_type", <<"people">>)>>
  ELSE PeopleIssues(doc.people, <<"people">>, 1)

\* The parsed Person: unknown keys stripped, jobs parsed by JobSchema, then the transform.
PersonParsed(person) ==
  PersonTransform(
    Merge([k \in DOMAIN person \cap ShapeKeys |-> person[k]],
          IF "jobs" \in DOMAIN person
          THEN [jobs |-> Arr([i \in 1..Len(person.jobs.v) |->
                                JobTransform(JobDefaults(person.jobs.v[i]))])]
          ELSE <<>>))

\* YCardParser.parse on the loaded document: { success, data } or { success, errors: [error] }.
YCardParse(doc) ==
  IF YCardIssues(doc) = <<>>
  THEN [success |-> TRUE,
        data |-> [people |-> [i \in 1..Len(doc.people) |-> PersonParsed(doc.people[i])]]]
  ELSE [success |-> FALSE, errors |-> <<[issues |-> YCardIssues(doc)]>>]

\* errors.flatMap(error => error.errors.map(err => path.join('.') + ': ' + message)):
\* one message per issue, kept here as the issue's path and code.
RECURSIVE getErrorMessages(_)
getErrorMessages(errs) ==
  IF errs = <<>> THEN <<>>
  ELSE [i \in 1..Len(errs[1].issues) |->
          [path |-> errs[1].issues[i].path, message |-> errs[1].issues[i].code]]
         \o getErrorMessages(Tail(errs))

\* data.people.map(p => p.uid).filter(uid => uid !== undefined).
extractUIDs(data) ==
  SelectSeq([i \in 1..Len(data.people) |-> Get(data.people[i], "uid")],
            LAMBDA u : u.t # "undefined")

\* The loop of checkDuplicateUIDs from position i on, with the Set seen so far.
RECURSIVE DuplicatesFrom(_, _, _)
DuplicatesFrom(uids, i, seen) ==
  IF i > Len(uids) THEN <<>>
  ELSE IF uids[i] \in seen THEN <<uids[i]>> \o DuplicatesFrom(uids, i + 1, seen)
  ELSE DuplicatesFrom(uids, i + 1, seen \cup {uids[i]})

\* A check that reports every duplicated uid once only.
checkDuplicateUIDs_OncePerUid(data) ==
  LET d == DuplicatesFrom(extractUIDs(data), 1, {})
  IN  SelectSeq([i \in 1..Len(d) |-> IF \E j \in 1..(i - 1) : d[j] = d[i] THEN Null ELSE d[i]],
                LAMBDA u : u # Null)

checkDuplicateUIDs(data) == DuplicatesFrom(extractUIDs(data), 1, {})

(* Inputs of the document schema.                                          *)
DocUids == {Absent, Str(<<>>), Str(<<"u">>), Str(<<"v">>)}
DocNames == {Absent, Str(<<"a">>), Num(5)}
DocJobs ==
  {Absent,
   Arr(<<[role |-> Str(<<"r">>), fte |-> Num(8)]>>),
   Arr(<<[title |-> Str(<<"t">>), fte |-> Num(15)]>>),
   Arr(<<[role |-> Str(<<"r">>), fte |-> Num(-1)], [role |-> Str(<<"s">>), fte |-> Num(15)]>>)}

DocPerson(u, n, j) == Present([uid |-> u, name |-> n, jobs |-> j])

\* Documents of up to MaxPeople people: only the first may carry a name, and the people
\* after the second carry a uid only.
InitDoc ==
  /\ \/ raw = <<>>
     \/ \E k \in 1..MaxPeople :
          \E u \in [1..k -> DocUids], n \in [1..k -> DocNames], j \in [1..k -> DocJobs] :
            /\ \A i \in 2..k : n[i] = Absent
            /\ \A i \in 3..k : j[i] = Absent /\ u[i] # Absent
            /\ raw = [people |-> [i \in 1..k |-> DocPerson(u[i], n[i], j[i])]]
  /\ nres = <<>>
  /\ npc = "input"
  /\ dups = <<>>
  /\ msgs = <<>>
  /\ ExpandIdle
  /\ WireIdle
  /\ ContractIdle
  /\ EscapeIdle

\* parse returns { success: true, data }.
DocParseOk ==
  /\ npc = "input"
  /\ YCardParse(raw).success
  /\ nres' = YCardParse(raw)
  /\ npc' = "done"
  /\ UNCHANGED <<raw, dups, msgs, evars, wvars, cvars, svars>>

\* parse returns { success: false, errors: [result.error] }.
DocParseFail ==
  /\ npc = "input"
  /\ ~YCardParse(raw).success
  /\ nres' = YCardParse(raw)
  /\ npc' = "done"
  /\ UNCHANGED <<raw, dups, msgs, evars, wvars, cvars, svars>>

\* getErrorMessages on the errors of a failed parse.
DocErrorMessages ==
  /\ npc = "done"
  /\ ~nres.success
  /\ msgs' = getErrorMessages(nres.errors)
  /\ npc' = "messages"
  /\ UNCHANGED <<raw, nres, dups, evars, wvars, cvars, svars>>

\* checkDuplicateUIDs on the data of a successful parse.
DocCheckDuplicates ==
  /\ npc = "done"
  /\ nres.success
  /\ dups' = checkDuplicateUIDs(nres.data)
  /\ npc' = "checked"
  /\ UNCHANGED <<raw, nres, msgs, evars, wvars, cvars, svars>>

NextDoc == DocParseOk \/ DocParseFail \/ DocErrorMessages \/ DocCheckDuplicates

SpecDoc == InitDoc /\ [][NextDoc]_vars

(***************************************************************************)
(* The round trip of the package test: parseYCard, yCardToVCard,           *)
(* stringifyVCard, parseVCard, vCardToYCard, each on the result of the one *)
(* before it.                                                              *)
(***************************************************************************)
ChainUids == {Str(<<>>), Str(<<"u">>), Str(<<"v">>)}
ChainNames == {Absent, Str(<<"a">>), Str(<<"a", ";">>)}
ChainSurnames == {Absent, Str(<<"b">>)}

ChainPerson(u, n, s) == Present([uid |-> u, name |-> n, surname |-> s])

\* Documents of one or two people without jobs, and one document that is not valid.
InitChain ==
  /\ \/ \E k \in 1..2 :
          \E u \in [1..k -> ChainUids], n \in [1..k -> ChainNames], s \in [1..k -> ChainSurnames] :
            raw = [people |-> [i \in 1..k |-> ChainPerson(u[i], n[i], s[i])]]
     \/ raw = [people |-> <<ChainPerson(Absent, Str(<<"a">>), Absent)>>]
  /\ nres = <<>>
  /\ npc = "input"
  /\ dups = <<>>
  /\ msgs = <<>>
  /\ ExpandIdle
  /\ WireIdle
  /\ ContractIdle
  /\ EscapeIdle

\* parseYCard returns YCardSchema.parse(data).
ChainParseYCard ==
  /\ npc = "input"
  /\ YCardParse(raw).success
  /\ nres' = YCardParse(raw)
  /\ npc' = "done"
  /\ UNCHANGED <<raw, dups, msgs, evars, wvars, cvars, svars>>

\* parseYCard throws: the chain ends here.
ChainParseYCardThrows ==
  /\ npc = "input"
  /\ ~YCardParse(raw).success
  /\ nres' = YCardParse(raw)
  /\ npc' = "thrown"
  /\ UNCHANGED <<raw, dups, msgs, evars, wvars, cvars, svars>>

\* const cards = yCardToVCard(org)
ChainToVCard ==
  /\ npc = "done"
  /\ pidx = 0
  /\ org' = nres.data
  /\ cards' = yCardToVCard(nres.data)
  /\ pidx' = Len(nres.data.people) + 1
  /\ jidx' = -1
  /\ UNCHANGED <<nvars, wvars, cvars, svars>>

\* const vcf = stringifyVCard(cards)
ChainStringify ==
  /\ pidx >= 1
  /\ recs = <<>>
  /\ cards # <<>>
  /\ recs' = cards
  /\ text' = stringifyVCard(cards)
  /\ UNCHANGED <<lines, li, currentCard, inCard, parsed, errors, nvars, evars, cvars, svars>>

\* parseVCard(vcf) is entered: the text is split into trimmed lines.
ChainParseVCard ==
  /\ recs # <<>>
  /\ li = 0
  /\ lines' = SplitLines(text)
  /\ li' = 1
  /\ UNCHANGED <<recs, text, currentCard, inCard, parsed, errors, nvars, evars, cvars, svars>>

\* vCardToYCard(parsedCards) is entered.
ChainToYCard ==
  /\ WireDone
  /\ cidx = 0
  /\ vcards' = parsed
  /\ cidx' = 1
  /\ UNCHANGED <<cpeople, results, nvars, evars, wvars, svars>>

NextChain ==
  \/ ChainParseYCard
  \/ ChainParseYCardThrows
  \/ ChainToVCard
  \/ ChainStringify
  \/ ChainParseVCard
  \/ NextWire
  \/ ChainToYCard
  \/ NextContract

SpecChain == InitChain /\ [][NextChain]_vars

(***************************************************************************)
(* Claims about the normalizer (checked under SpecNorm)                    *)
(***************************************************************************)
\* The value of the first key of ks that obj has with a value other than null and undefined.
RECURSIVE FirstNonNullish(_, _)
FirstNonNullish(obj, ks) ==
  IF ks = <<>> THEN Undefined
  ELSE IF Get(obj, ks[1]).t \notin {"null", "undefined"} THEN Get(obj, ks[1])
  ELSE FirstNonNullish(obj, Tail(ks))

\* The priority order as the specification states it, canonical key first.
PriorityOrder ==
  [uid |-> <<"uid", "id">>,
   name |-> <<"name", "nombre", "displayName">>,
   surname |-> <<"surname", "apellido", "sn", "lastName">>,
   title |-> <<"title", "puesto", "role">>,
   email |-> <<"email", "correo", "mail">>,
   org |-> <<"org", "organization", "company">>,
   org_unit |-> <<"org_unit", "department", "ou">>,
   manager |-> <<"manager", "jefe", "joushi", "boss">>,
   phone |-> <<"phone", "tel">>,
   address |-> <<"address", "adr">>]

\* C2: after a successful normalization every canonical field that has some key with
\* a non-null, non-undefined value holds the value of the first such key in the
\* priority order (an empty string included).
C2_FirstNonNullWins ==
  NormOk =>
    \A f \in DOMAIN PriorityOrder :
      FirstNonNullish(raw, PriorityOrder[f]).t # "undefined"
        => nres.data[f] = FirstNonNullish(raw, PriorityOrder[f])

\* The positions in the priority order of field f whose keys carry a non-empty value.
NonEmptyPositions(f) ==
  {i \in 1..Len(PriorityOrder[f]) : Truthy(Get(raw, PriorityOrder[f][i]))}

SetMin(S) == CHOOSE m \in S : \A x \in S : m <= x

\* C3: when several keys of one field carry non-empty values, the field resolves to
\* the value of the key that is earliest in the fixed order.
C3_EarliestNonEmptyWins ==
  NormOk =>
    \A f \in {"name", "surname", "title", "email", "org", "org_unit", "manager"} :
      Cardinality(NonEmptyPositions(f)) >= 2
        => nres.data[f] = raw[PriorityOrder[f][SetMin(NonEmptyPositions(f))]]

\* C3 witness: two aliases of surname with different non-empty values, canonical
\* key absent, and the earlier alias won.
C3_Witness ==
  /\ NormOk
  /\ DOMAIN raw \cap {"surname", "apellido", "sn", "lastName"} = {"sn", "lastName"}
  /\ Truthy(raw["sn"]) /\ Truthy(raw["lastName"])
  /\ raw["sn"] # raw["lastName"]
  /\ nres.data["surname"] = raw["sn"]

\* Every key of the input passes the type its schema entry declares.
TypesValid == \A k \in DOMAIN raw \cap ShapeKeys : FieldTypeOK(k, raw[k])

\* C4: a mapping with an id and no uid (and nothing else invalid) normalizes
\* successfully and its uid is the value of id.
C4_IdAloneResolvesUid ==
  (NormDone /\ "uid" \notin DOMAIN raw /\ "id" \in DOMAIN raw /\ TypesValid)
    => (nres.success /\ nres.data["uid"] = raw["id"])

\* C5: a mapping with neither uid nor id fails; a mapping with a string uid and no
\* other key at all succeeds.
C5_UidRequiredOthersOptional ==
  NormDone =>
    /\ ("uid" \notin DOMAIN raw /\ "id" \notin DOMAIN raw) => ~nres.success
    /\ (DOMAIN raw = {"uid"} /\ raw["uid"].t = "string") => nres.success

\* C5 witness: an otherwise valid mapping with a name and neither uid nor id was rejected.
C5_Witness ==
  /\ NormDone
  /\ "uid" \notin DOMAIN raw /\ "id" \notin DOMAIN raw
  /\ "name" \in DOMAIN raw /\ TypesValid
  /\ ~nres.success

\* C6: every successfully normalized Person has a non-empty string uid.
C6_UidNonEmpty ==
  NormOk => (nres.data["uid"].t = "string" /\ nres.data["uid"].v # <<>>)

AliasKeys ==
  {"id", "nombre", "displayName", "apellido", "sn", "lastName", "puesto", "role",
   "correo", "mail", "organization", "company", "department", "ou",
   "jefe", "joushi", "boss", "tel", "adr"}

\* C7: no alias key exists in a successfully normalized Person.
C7_NoAliasKeySurvives ==
  NormOk => DOMAIN nres.data \cap AliasKeys = {}

(***************************************************************************)
(* Claims about the expansion (checked under SpecExpand)                   *)
(***************************************************************************)
\* The Person has a top-level title.
HasTitle(person) == "title" \in DOMAIN person /\ person["title"].t = "string"

\* The number of entries of the Person's jobs sequence.
NumJobs(person) ==
  IF "jobs" \in DOMAIN person /\ person["jobs"].t = "array" THEN Len(person["jobs"].v) ELSE 0

\* The record count the specification states for one Person.
StatedCount(person) ==
  IF NumJobs(person) = 0 THEN 1
  ELSE IF HasTitle(person) THEN 1 + NumJobs(person)
  ELSE NumJobs(person)

RECURSIVE SumCounts(_)
SumCounts(people) ==
  IF people = <<>> THEN 0 ELSE StatedCount(people[1]) + SumCounts(Tail(people))

RECURSIVE StatedJobUids(_, _, _)
StatedJobUids(person, u, i) ==
  IF i >= NumJobs(person) THEN <<>>
  ELSE (IF i = 0 /\ ~HasTitle(person) THEN <<>>
        ELSE <<u \o <<"-", "j", "o", "b", "-">> \o ToDecimal(i)>>)
       \o StatedJobUids(person, u, i + 1)

RECURSIVE StatedUids(_)
StatedUids(people) ==
  IF people = <<>> THEN <<>>
  ELSE <<people[1]["uid"].v>> \o StatedJobUids(people[1], people[1]["uid"].v, 0)
       \o StatedUids(Tail(people))

\* C9: when the expansion has finished, the uids of the records are, Person by
\* Person, the Person's uid U followed by "U-job-i" for each job position i that
\* produced a record.
C9_SyntheticUids ==
  ExpandDone => [i \in 1..Len(cards) |-> cards[i].uid] = StatedUids(org.people)

\* The org sequence built from a Person's own org and org_unit (no org key when the
\* Person has no org).
OwnOrg(person) ==
  IF "org" \in DOMAIN person
  THEN [org |-> <<person["org"].v>> \o
                (IF "org_unit" \in DOMAIN person THEN <<person["org_unit"].v>> ELSE <<>>)]
  ELSE <<>>

\* The keys of function f that are in S, with f's values.
Restrict(f, S) == [k \in DOMAIN f \cap S |-> f[k]]

\* C10: right after a Person's primary record is pushed, that record's title is the
\* Person's own title and its org sequence is the Person's own [org, org_unit].
C10_PrimaryFromOwnFields ==
  (npc = "idle" /\ li = 0 /\ jidx = 0 /\ pidx <= Len(org.people)) =>
    LET person == org.people[pidx]
        card == cards[Len(cards)]
    IN  /\ Restrict(card, {"title"}) =
             (IF HasTitle(person) THEN [title |-> person["title"].v] ELSE <<>>)
        /\ Restrict(card, {"org"}) = OwnOrg(person)

\* C11: right after a secondary record is pushed for the job at position jidx-1, the
\* record has the fn, n, email, tel and adr of the Person's primary record, its title
\* is the job's role, and when the job names its own org the record's org is that org.
C11_SecondaryFromJob ==
  (pidx >= 1 /\ pidx <= Len(org.people) /\ jidx >= 1
     /\ ~(jidx = 1 /\ ~HasTitle(org.people[pidx]))) =>
    LET person == org.people[pidx]
        job == person["jobs"].v[jidx]
        card == cards[Len(cards)]
        primary == cards[Len(cards) - (IF HasTitle(person) THEN jidx ELSE jidx - 1)]
        Contact == {"fn", "n", "email", "tel", "adr"}
    IN  /\ Restrict(card, Contact) = Restrict(primary, Contact)
        /\ Contact \subseteq DOMAIN card
        /\ Restrict(card, {"title"}) = [title |-> job["role"].v]
        /\ "org" \in DOMAIN job => ("org" \in DOMAIN card /\ card["org"][1] = job["org"].v)

(***************************************************************************)
(* Claims about the contraction (checked under SpecContract)               *)
(***************************************************************************)
\* The record has a uid that is neither undefined nor empty.
RecordHasUid(card) == "uid" \in DOMAIN card /\ card["uid"] # Undef /\ card["uid"] # <<>>

C13_ContractionDeterministic ==
  Len(results) = 2 => results[1] = results[2]

(***************************************************************************)
(* Claims about the codec (checked under SpecWire)                         *)
(***************************************************************************)
\* C1: parsing the serialization of one record returns exactly that record,
\* field for field.
C1_WireRoundTrip ==
  (WireDone /\ Len(recs) = 1) => parsed = recs

\* C18: unescapeVCardValue(escapeVCardValue(s)) = s for every string s of backslashes,
\* commas, semicolons, newlines and letters.
C18_UnescapeInvertsEscape ==
  spc = "restored" => restored = sval

\* The characters of a line before its first ':' or ';' (the property name).
RECURSIVE LineName(_)
LineName(line) ==
  IF line = <<>> THEN <<>>
  ELSE IF line[1] \in {":", ";"} THEN <<>>
  ELSE <<line[1]>> \o LineName(Tail(line))

\* The characters of a line after its first ':' (the property value).
RECURSIVE LineValue(_)
LineValue(line) ==
  IF line = <<>> THEN <<>>
  ELSE IF line[1] = ":" THEN Tail(line)
  ELSE LineValue(Tail(line))

\* Some BEGIN:VCARD line of ls is followed by another BEGIN:VCARD or by the end of
\* the text before any END:VCARD.
UnmatchedBegin(ls) ==
  \E i \in 1..Len(ls) :
    /\ ls[i] = <<"B", "E", "G", "I", "N", ":", "V", "C", "A", "R", "D">>
    /\ ~\E j \in (i + 1)..Len(ls) :
          /\ ls[j] = <<"E", "N", "D", ":", "V", "C", "A", "R", "D">>
          /\ \A m \in (i + 1)..(j - 1) :
               ls[m] # <<"B", "E", "G", "I", "N", ":", "V", "C", "A", "R", "D">>

\* C14: when the parse of a text with an unmatched BEGIN:VCARD has finished, a
\* MalformedDocument error has been reported.
C14_UnmatchedBeginReported ==
  (WireDone /\ UnmatchedBegin(lines)) =>
    \E e \in 1..Len(errors) : errors[e] = "MalformedDocument"

\* C15: when the parse has finished, every returned record's n has exactly 5
\* components and every adr value exactly 7.
C15_FixedComponentCounts ==
  WireDone =>
    \A c \in 1..Len(parsed) :
      /\ "n" \in DOMAIN parsed[c] => Len(parsed[c]["n"]) = 5
      /\ "adr" \in DOMAIN parsed[c] =>
           \A a \in 1..Len(parsed[c]["adr"]) : Len(parsed[c]["adr"][a].value) = 7

\* The component contains a semicolon and no backslash.
HasSemicolon(comp) ==
  /\ \E i \in 1..Len(comp) : comp[i] = ";"
  /\ \A i \in 1..Len(comp) : comp[i] # "\\"

\* C16: when one serialized record has been parsed back, its n and org have as many
\* components as were serialized, and every component that contains a semicolon
\* comes back as that one component.
C16_EscapedSemicolonNoBoundary ==
  (WireDone /\ Len(recs) = 1) =>
    /\ Len(parsed) = 1
    /\ \A k \in DOMAIN recs[1] \cap {"n", "org"} :
         \A i \in 1..Len(recs[1][k]) :
           HasSemicolon(recs[1][k][i]) =>
             /\ Len(parsed[1][k]) = Len(recs[1][k])
             /\ parsed[1][k][i] = recs[1][k][i]

\* The text is one block: BEGIN:VCARD first, END:VCARD last, neither in between.
SingleBlock(ls) ==
  /\ Len(ls) >= 2
  /\ ls[1] = <<"B", "E", "G", "I", "N", ":", "V", "C", "A", "R", "D">>
  /\ ls[Len(ls)] = <<"E", "N", "D", ":", "V", "C", "A", "R", "D">>
  /\ \A i \in 2..(Len(ls) - 1) :
       /\ ls[i] # <<"B", "E", "G", "I", "N", ":", "V", "C", "A", "R", "D">>
       /\ ls[i] # <<"E", "N", "D", ":", "V", "C", "A", "R", "D">>

\* The values of the lines of ls whose property name is name, in file order.
RECURSIVE ValuesOfLines(_, _)
ValuesOfLines(ls, name) ==
  IF ls = <<>> THEN <<>>
  ELSE (IF LineName(ls[1]) = name THEN <<LineValue(ls[1])>> ELSE <<>>)
       \o ValuesOfLines(Tail(ls), name)

\* The comma-separated items of all the given values, in order.
RECURSIVE ItemsOf(_)
ItemsOf(vals) == IF vals = <<>> THEN <<>> ELSE Split(vals[1], ",") \o ItemsOf(Tail(vals))

\* C17: when the parse of a one-block text has finished, the record's email, tel,
\* adr, url and categories arrays hold the values of all the EMAIL, TEL, ADR, URL and
\* CATEGORIES lines of the block, in file order.
C17_RepeatedPropertiesAccumulate ==
  (WireDone /\ SingleBlock(lines)) =>
    LET card == IF parsed = <<>> THEN <<>> ELSE parsed[1]
        emails == ValuesOfLines(lines, <<"E", "M", "A", "I", "L">>)
        tels == ValuesOfLines(lines, <<"T", "E", "L">>)
        adrs == ValuesOfLines(lines, <<"A", "D", "R">>)
    IN  /\ [i \in 1..Len(ListOf(card, "email")) |-> card["email"][i].value] = emails
        /\ [i \in 1..Len(ListOf(card, "tel")) |-> card["tel"][i].value] = tels
        /\ [i \in 1..Len(ListOf(card, "adr")) |-> card["adr"][i].value]
             = [i \in 1..Len(adrs) |-> Split(adrs[i], ";")]
        /\ ListOf(card, "url") = ValuesOfLines(lines, <<"U", "R", "L">>)
        /\ ListOf(card, "categories")
             = ItemsOf(ValuesOfLines(lines, <<"C", "A", "T", "E", "G", "O", "R", "I", "E", "S">>))

\* Every character of the note is a comma, a newline or a letter.
PlainNote(note) == \A i \in 1..Len(note) : note[i] \notin {"\\", ";"}

\* The note with each comma written as backslash-comma and each newline as
\* backslash-n.
RECURSIVE StatedNoteText(_)
StatedNoteText(note) ==
  IF note = <<>> THEN <<>>
  ELSE (IF note[1] = "," THEN <<"\\", ",">>
        ELSE IF note[1] = "\n" THEN <<"\\", "n">>
        ELSE <<note[1]>>) \o StatedNoteText(Tail(note))

\* C19: a record with just a note of commas, newlines and letters is serialized to
\* BEGIN, VERSION, (UID,) one NOTE line and END, the NOTE line carrying the note with
\* its commas and newlines backslash-escaped, and the finished parse returns the
\* original note.
C19_NoteEscapedAndRestored ==
  (WireDone /\ Len(recs) = 1 /\ "note" \in DOMAIN recs[1]
     /\ DOMAIN recs[1] \subseteq {"version", "uid", "note"} /\ PlainNote(recs[1]["note"])) =>
    /\ Len(lines) = (IF "uid" \in DOMAIN recs[1] THEN 5 ELSE 4)
    /\ ValuesOfLines(lines, <<"N", "O", "T", "E">>) = <<StatedNoteText(recs[1]["note"])>>
    /\ Len(parsed) = 1
    /\ "note" \in DOMAIN parsed[1]
    /\ parsed[1]["note"] = recs[1]["note"]

\* C19 witness: the note made of a comma and a newline has been serialized and
\* parsed back.
C19_Witness ==
  /\ WireDone /\ Len(recs) = 1 /\ "note" \in DOMAIN recs[1]
  /\ recs[1]["note"] = <<",", "\n">>
  /\ Len(parsed) = 1 /\ parsed[1]["note"] = <<",", "\n">>

\* The order of the property names the specification states.
StatedOrder ==
  <<<<"B", "E", "G", "I", "N">>, <<"V", "E", "R", "S", "I", "O", "N">>, <<"U", "I", "D">>,
    <<"F", "N">>, <<"N">>, <<"T", "I", "T", "L", "E">>, <<"O", "R", "G">>,
    <<"E", "M", "A", "I", "L">>, <<"T", "E", "L">>, <<"A", "D", "R">>, <<"U", "R", "L">>,
    <<"N", "O", "T", "E">>, <<"C", "A", "T", "E", "G", "O", "R", "I", "E", "S">>,
    <<"E", "N", "D">>>>

\* The position of a property name in the stated order, 0 for any other name.
Rank(name) ==
  IF \E r \in 1..Len(StatedOrder) : StatedOrder[r] = name
  THEN CHOOSE r \in 1..Len(StatedOrder) : StatedOrder[r] = name
  ELSE 0

Repeatable == {<<"E", "M", "A", "I", "L">>, <<"T", "E", "L">>, <<"A", "D", "R">>, <<"U", "R", "L">>}

IssuePaths(is) == {is[i].path : i \in 1..Len(is)}
IssueCodes(is, path) == {is[i].code : i \in {j \in 1..Len(is) : is[j].path = path}}

\* C21: a job is accepted exactly when its fte lies in the closed interval [0, 1]
\* (an omitted fte counts as the default 1); an fte outside the interval makes the
\* normalization fail with a range error on fte; no normalized job carries an fte
\* outside [0, 1].
C21_FteWithinUnitInterval ==
  NormDone =>
    LET fte == Get(raw, "fte")
        inside == fte.t = "number" /\ fte.v >= 0 /\ fte.v <= 10
    IN  /\ fte.t \in {"number", "undefined"} => (nres.success <=> (fte.t = "undefined" \/ inside))
        /\ (fte.t = "number" /\ ~inside) =>
             /\ ~nres.success
             /\ IssueCodes(nres.issues, <<"fte">>) \cap {"too_small", "too_big"} # {}
        /\ nres.success =>
             /\ nres.data.fte.t = "number"
             /\ nres.data.fte.v >= 0 /\ nres.data.fte.v <= 10

\* A job with fte 1.5 has been rejected.
C21_Witness ==
  NormDone /\ "fte" \in DOMAIN raw /\ raw.fte = Num(15) /\ ~nres.success

\* The value the job carries for key k: the given one, else the stated default d.
GivenOr(job, k, d) == IF k \in DOMAIN job THEN job[k] ELSE d

\* C22: a normalized job takes role from `role`, else from `title`, and manager from
\* `manager`, else from `jefe` (the first of the two keys that has a value other than
\* null and undefined); fte, dotted and primary are the given values, and 1, [] and
\* false exactly when the key is absent from the input.
C22_JobAliasesAndDefaults ==
  NormOk =>
    /\ nres.data.role = FirstNonNullish(raw, <<"role", "title">>)
    /\ nres.data.manager = FirstNonNullish(raw, <<"manager", "jefe">>)
    /\ nres.data.fte = GivenOr(raw, "fte", Num(10))
    /\ nres.data.dotted = GivenOr(raw, "dotted", Arr(<<>>))
    /\ nres.data.primary = GivenOr(raw, "primary", Bool(FALSE))

(***************************************************************************)
(* Claims about the document schema (checked under SpecDoc)                *)
(***************************************************************************)
\* The violations of a document as the specification lists them, each named by the
\* place it occurs at: a Person without uid, a name that is not a string, a job whose
\* fte is a number outside [0, 1].
StatedViolations(doc) ==
  UNION {
    (IF "uid" \notin DOMAIN doc.people[i] THEN {<<"people", Digit(i - 1), "uid">>} ELSE {})
    \cup (IF "name" \in DOMAIN doc.people[i] /\ doc.people[i].name.t # "string"
          THEN {<<"people", Digit(i - 1), "name">>} ELSE {})
    \cup (IF "jobs" \in DOMAIN doc.people[i]
          THEN {<<"people", Digit(i - 1), "jobs", Digit(k - 1), "fte">> :
                  k \in {j \in 1..Len(doc.people[i].jobs.v) :
                           LET f == doc.people[i].jobs.v[j].fte
                           IN  f.t = "number" /\ (f.v < 0 \/ f.v > 10)}}
          ELSE {})
    : i \in 1..Len(doc.people)}

\* C23: validation accumulates.  A document with k independent violations fails, and
\* the failure carries all k of them: the issues of the returned error, and the
\* messages getErrorMessages derives from it, name exactly the k violated places.
C23_ValidationAccumulates ==
  (npc # "input" /\ "people" \in DOMAIN raw) =>
    LET v == StatedViolations(raw)
    IN  /\ nres.success <=> v = {}
        /\ ~nres.success =>
             /\ Len(nres.errors) = 1
             /\ IssuePaths(nres.errors[1].issues) = v
             /\ Len(nres.errors[1].issues) = Cardinality(v)
        /\ npc = "messages" =>
             /\ {msgs[i].path : i \in 1..Len(msgs)} = v
             /\ Len(msgs) = Cardinality(v)

\* A missing uid in the first Person and an out-of-range fte in a job of the second
\* have both been reported.
C23_Witness ==
  /\ npc = "messages"
  /\ Len(msgs) = 2
  /\ {msgs[i].path : i \in 1..Len(msgs)} =
       {<<"people", "0", "uid">>, <<"people", "1", "jobs", "0", "fte">>}

\* How many entries of the sequence s equal x.
Count(s, x) == Cardinality({i \in 1..Len(s) : s[i] = x})

\* The uids of the parsed people, in document order (a Person whose uid is undefined has none).
DataUids(data) ==
  SelectSeq([i \in 1..Len(data.people) |-> data.people[i].uid], LAMBDA u : u.t = "string")

ContentLines(str) ==
  TrimAll(Split(ReplaceAll(ReplaceAll(str, <<CR, NL>>, <<NL>>), <<CR>>, <<NL>>), NL))

\* The property names addPropertyToCard stores, VERSION aside.
RecognizedNames ==
  {<<"U", "I", "D">>, <<"F", "N">>, <<"N">>, <<"T", "I", "T", "L", "E">>, <<"O", "R", "G">>,
   <<"E", "M", "A", "I", "L">>, <<"T", "E", "L">>, <<"A", "D", "R">>, <<"U", "R", "L">>,
   <<"N", "O", "T", "E">>, <<"C", "A", "T", "E", "G", "O", "R", "I", "E", "S">>}

\* The line is a property line with a recognized name other than VERSION.
RecognizedLine(line) ==
  /\ line # <<>>
  /\ line[1] # "#"
  /\ IndexOf(line, ":") > 0
  /\ ToUpperCase(LineName(line)) \in RecognizedNames

\* The positions (i, j) of the BEGIN..END blocks of ls: a BEGIN:VCARD, the next
\* END:VCARD after it, and no other BEGIN:VCARD in between.
BlocksOf(ls) ==
  {p \in (1..Len(ls)) \X (1..Len(ls)) :
     /\ p[1] < p[2]
     /\ ls[p[1]] = <<"B", "E", "G", "I", "N", ":", "V", "C", "A", "R", "D">>
     /\ ls[p[2]] = <<"E", "N", "D", ":", "V", "C", "A", "R", "D">>
     /\ \A m \in (p[1] + 1)..(p[2] - 1) :
          /\ ls[m] # <<"B", "E", "G", "I", "N", ":", "V", "C", "A", "R", "D">>
          /\ ls[m] # <<"E", "N", "D", ":", "V", "C", "A", "R", "D">>}

\* The blocks of ls that hold a recognized property other than VERSION.
FilledBlocksOf(ls) ==
  {p \in BlocksOf(ls) : \E m \in (p[1] + 1)..(p[2] - 1) : RecognizedLine(ls[m])}

\* Every BEGIN:VCARD of ls is closed and every END:VCARD closes one.
WellFormed(ls) ==
  \A i \in 1..Len(ls) :
    /\ ls[i] = <<"B", "E", "G", "I", "N", ":", "V", "C", "A", "R", "D">>
         => \E p \in BlocksOf(ls) : p[1] = i
    /\ ls[i] = <<"E", "N", "D", ":", "V", "C", "A", "R", "D">>
         => \E p \in BlocksOf(ls) : p[2] = i

\* C24: parseVCard returns the same records whatever the line breaks are.  A text
\* whose content, read with LF, CRLF or bare CR line breaks, is a sequence of
\* complete blocks yields one record per block that holds a recognized property,
\* with the block's FN.
C24_LineEndingsEquivalent ==
  (WireDone /\ WellFormed(ContentLines(text))) =>
    /\ Len(parsed) = Cardinality(FilledBlocksOf(ContentLines(text)))
    /\ \A i \in 1..Len(parsed) :
         "fn" \in DOMAIN parsed[i]
           => \E m \in 1..Len(ContentLines(text)) :
                /\ ToUpperCase(LineName(ContentLines(text)[m])) = <<"F", "N">>
                /\ LineValue(ContentLines(text)[m]) = parsed[i]["fn"]

\* C25: the END:VCARD that closes a block adds no record when the block holds no
\* recognized property other than VERSION, and exactly one record when it holds one.
C25_VersionOnlyBlockDiscarded ==
  [][(li >= 1 /\ li <= Len(lines) /\ li' = li + 1 /\ inCard
        /\ lines[li] = <<"E", "N", "D", ":", "V", "C", "A", "R", "D">>) =>
       LET b == CHOOSE i \in 1..(li - 1) :
                  /\ lines[i] = <<"B", "E", "G", "I", "N", ":", "V", "C", "A", "R", "D">>
                  /\ \A m \in (i + 1)..(li - 1) :
                       lines[m] # <<"B", "E", "G", "I", "N", ":", "V", "C", "A", "R", "D">>
       IN  IF \E m \in (b + 1)..(li - 1) : RecognizedLine(lines[m])
           THEN Len(parsed') = Len(parsed) + 1 /\ parsed'[Len(parsed')] = currentCard
           ELSE parsed' = parsed]_vars

\* A block with a recognized property has produced its one record and the
\* VERSION-only block after it has produced none.
C25_Witness ==
  /\ WireDone
  /\ Len(lines) >= 3
  /\ LineName(lines[Len(lines) - 1]) = <<"V", "E", "R", "S", "I", "O", "N">>
  /\ Cardinality(BlocksOf(lines)) = 2
  /\ Len(parsed) = 1

\* C28: parseVCard returns one record per BEGIN..END block at most: at every point
\* of the scan the records pushed so far are no more than the blocks closed so far,
\* so an END:VCARD that closes no block of its own adds no record.
C28_OneRecordPerBlock ==
  (li >= 1) => Len(parsed) <= Cardinality(BlocksOf(SubSeq(lines, 1, li - 1)))

(***************************************************************************)
(* Claims about the round trip (checked under SpecChain)                   *)
(***************************************************************************)
\* C27: for a document whose people have no jobs, the chain parseYCard,
\* yCardToVCard, stringifyVCard, parseVCard, vCardToYCard returns as many people as
\* the document has, in the same order, each with the uid, name and surname of the
\* original person.
C27_ChainPreservesPeople ==
  Len(results) >= 1 =>
    /\ Len(results[1].people) = Len(nres.data.people)
    /\ \A i \in 1..Len(nres.data.people) :
         (i <= Len(results[1].people)) =>
           \A k \in {"uid", "name", "surname"} :
             Get(results[1].people[i], k) = Get(nres.data.people[i], k)

(***************************************************************************)
(* Claims about the uids and titles of the expansion (checked under        *)
(* SpecExpand)                                                             *)
(***************************************************************************)
\* C29: when the Persons of the document have pairwise distinct uids, the records
\* of the finished expansion, primary and secondary, have pairwise distinct uids.
C29_RecordUidsDistinct ==
  (ExpandDone
     /\ \A i, j \in 1..Len(org.people) :
          i # j => Get(org.people[i], "uid") # Get(org.people[j], "uid"))
    => \A a, b \in 1..Len(cards) : a # b => cards[a].uid # cards[b].uid

\* The records of the Person at position i: the next StatedCount records after those
\* of the Persons before it.
RecordsOf(i) ==
  LET before == SumCounts(SubSeq(org.people, 1, i - 1))
  IN  SubSeq(cards, before + 1, before + StatedCount(org.people[i]))

\* C30: the expansion loses no role.  Each job's role is the title of one of the
\* records of its Person, and when the Person has no top-level title, so that job 0
\* is skipped, the primary record carries job 0's role as its title.
C30_NoRoleLost ==
  ExpandDone =>
    \A i \in 1..Len(org.people) :
      LET person == org.people[i]
          rs == RecordsOf(i)
      IN  /\ \A j \in 1..NumJobs(person) :
               \E r \in 1..Len(rs) :
                 /\ "title" \in DOMAIN rs[r]
                 /\ rs[r]["title"] = person["jobs"].v[j].role.v
          /\ (~HasTitle(person) /\ NumJobs(person) >= 1) =>
               /\ "title" \in DOMAIN rs[1]
               /\ rs[1]["title"] = person["jobs"].v[1].role.v

====
